---------------------------- MODULE Spec2Model ----------------------------
(***************************************************************************)
(* A model of the LC-3 emulator of src/main.rs: the register file, the     *)
(* memory array, the fetch/decode/execute loop of main, its opcode and     *)
(* trap handlers, and the helpers sign_extend, get_flag and update_flag.   *)
(*                                                                         *)
(* u16 values are naturals below 65536.  A `+` on u16 panics when the      *)
(* build checks overflow (the debug profile) and wraps when it does not    *)
(* (the release profile); the variable overflow_checks is the profile of   *)
(* the build under test.  Indexing memory with a usize at or beyond the    *)
(* array's length panics.  A panic ends the run: pc = "panic".             *)
(***************************************************************************)
EXTENDS Integers, Sequences, FiniteSets, TLC

\* ------------------------------------------------------------------ bounds

\* The number of loop cycles a behaviour of the model may run.
MaxSteps == 4

\* ------------------------------------------------------- program constants

U16 == 65536            \* the modulus of u16, the type of every word

R0 == 0
R7 == 7
PC == 8
COND == 9
COUNT == 10

POSITIVE == 1
ZERO == 2
NEGATIVE == 4

\* let mut memory = [0u16; 1 << 16 - 1]: `-` binds tighter than `<<`.
MEMORY_LEN == 2 ^ (16 - 1)

OP_BRANCH == 0
OP_ADD == 1
OP_LOAD == 2
OP_STORE == 3
OP_JUMPR == 4
OP_AND == 5
OP_LOADR == 6
OP_STORER == 7
OP_RTI == 8
OP_NOT == 9
OP_LOADI == 10
OP_STOREI == 11
OP_JUMP == 12
OP_RES == 13
OP_LEA == 14
OP_TRAP == 15

TRAP_GETC == 32
TRAP_OUT == 33
TRAP_PUTS == 34
TRAP_IN == 35
TRAP_PUTSP == 36
TRAP_HALT == 37

\* ------------------------------------------------------------ u16 bit logic

RECURSIVE BitAnd(_, _)
BitAnd(a, b) ==
    IF a = 0 \/ b = 0 THEN 0
    ELSE (a % 2) * (b % 2) + 2 * BitAnd(a \div 2, b \div 2)

RECURSIVE BitOr(_, _)
BitOr(a, b) ==
    IF a = 0 THEN b
    ELSE IF b = 0 THEN a
    ELSE (IF a % 2 = 1 \/ b % 2 = 1 THEN 1 ELSE 0) + 2 * BitOr(a \div 2, b \div 2)

BitNot(a) == (U16 - 1) - a

Shr(x, n) == x \div (2 ^ n)

\* x << n on u16 with n below 16: the bits shifted out are dropped.
Shl(x, n) == (x * (2 ^ n)) % U16

\* a + b on u16 where the build does not check overflow.
WrappingAdd(a, b) == (a + b) % U16

\* a + b on u16 exceeds u16::MAX.
AddOverflows(a, b) == a + b >= U16

\* ------------------------------------------------------------------ helpers

\* 0xFFFF << bit_count with bit_count: u8 asks for a shift of the full width
\* when bit_count is 16.
ShiftOverflows(bit_count) == bit_count >= 16

\* The branch of sign_extend that shifts is taken.
SignBitSet(x, bit_count) == BitAnd(Shr(x, bit_count - 1), 1) = 1

\* sign_extend where it returns: an unchecked shift masks its amount to the
\* low four bits.
sign_extend(x, bit_count) ==
    IF SignBitSet(x, bit_count)
    THEN BitOr(x, Shl(U16 - 1, bit_count % 16))
    ELSE x

\* get_flag with the sign test left out.
get_flag_unsigned(r) == IF r = 0 THEN ZERO ELSE POSITIVE

get_flag(r) ==
    IF r = 0 THEN ZERO
    ELSE IF Shr(r, 15) = 1 THEN NEGATIVE
    ELSE POSITIVE

update_flag(regs, r) == [regs EXCEPT ![COND] = get_flag(regs[r])]

\* ------------------------------------------------------------------- memory

\* The array is held sparsely: a function from the indices of its non-zero
\* words to those words; every other word of the MEMORY_LEN words is 0.
InBounds(i) == i < MEMORY_LEN

MemRead(m, i) == IF i \in DOMAIN m THEN m[i] ELSE 0

MemWrite(m, i, v) ==
    IF v = 0
    THEN [a \in (DOMAIN m) \ {i} |-> m[a]]
    ELSE [a \in (DOMAIN m) \cup {i} |-> IF a = i THEN v ELSE m[a]]

\* ------------------------------------------------------------------- output

\* print!("{}", b as char): a char below 128 is one byte, the others two.
Utf8(c) == IF c < 128 THEN <<c>> ELSE <<192 + (c \div 64), 128 + (c % 64)>>

\* "HALT\n"
HaltNotice == <<72, 65, 76, 84, 10>>

\* "Enter a character: "
InPrompt == <<69, 110, 116, 101, 114, 32, 97, 32, 99, 104, 97, 114, 97, 99, 116, 101, 114, 58, 32>>

\* "Hello, world!\n"
Farewell == <<72, 101, 108, 108, 111, 44, 32, 119, 111, 114, 108, 100, 33, 10>>

\* -------------------------------------------------------------------- state

VARIABLES
    memory,          \* the memory array (sparse, see MemRead)
    registers,       \* the register file: R0..R7, PC, COND
    running,         \* the loop's flag
    pc,              \* where main is: "while", "done", "panic"; "idle": not run
    panic,           \* the message of the panic that ended the run, or "none"
    stdin,           \* the bytes the input stream still holds
    stdout,          \* the bytes written to the output stream
    overflow_checks, \* the build checks arithmetic overflow
    steps,           \* loop cycles begun
    ir,              \* the instruction word of the last cycle
    iaddr,           \* the address it was fetched from
    prev,            \* the register file when that cycle began
    prev_memory,     \* the memory array when that cycle began
    handler,         \* the handler that cycle was dispatched to
    last_store,      \* the last store that ran to its end: opcode, index, value
    load_addr,       \* the index the last cycle loaded dr from, if it did
    call             \* a direct call of a helper function, outside main

vars == <<memory, registers, running, pc, panic, stdin, stdout,
          overflow_checks, steps, ir, iaddr, prev, prev_memory, handler,
          last_store, load_addr, call>>

NoCall == [fn |-> "none"]

\* What ir holds when the last cycle fetched no word.
NoInstr == 0 - 1

\* What load_addr holds when the last cycle loaded nothing.
NoAddr == 0 - 1

\* What last_store holds before the first store.
NoStore == [op |-> 0 - 1, addr |-> 0 - 1, value |-> 0]

\* The cycle ends with no store and no load done.
NoAccess == load_addr' = NoAddr /\ UNCHANGED last_store

\* ------------------------------------------------------------------- inputs

\* Where the program image is placed and PC set before the loop begins.
Origins == {0, 8192, 12288, 25025, 32767}

\* The first word of the image.
FirstWords == {
    0,          \* 0x0000 BRANCH, cond 0
    3585,       \* 0x0E01 BRANCH nzp, +1
    4129,       \* 0x1021 ADD R0, R0, #1
    4159,       \* 0x103F ADD R0, R0, #-1
    4551,       \* 0x11C7 ADD R0, R7, R7
    20543,      \* 0x503F AND R0, R0, #-1
    20935,      \* 0x51C7 AND R0, R7, R7
    36927,      \* 0x903F NOT R0, R0
    8193,       \* 0x2001 LOAD R0, #1
    8194,       \* 0x2002 LOAD R0, #2
    8703,       \* 0x21FF LOAD R0, #-1
    40961,      \* 0xA001 LOADI R0, #1
    25025,      \* 0x61C1 LOADR R0, R7, #1
    25087,      \* 0x61FF LOADR R0, R7, #-1
    57345,      \* 0xE001 LEA R0, #1
    57855,      \* 0xE1FF LEA R0, #-1
    15873,      \* 0x3E01 STORE R7, #1
    15872,      \* 0x3E00 STORE R7, #0
    48641,      \* 0xBE01 STOREI R7, #1
    32257,      \* 0x7E01 STORER R7, R0, #1
    49600,      \* 0xC1C0 JUMP R7
    18433,      \* 0x4801 JUMPR +1
    18434,      \* 0x4802 JUMPR +2
    20479,      \* 0x4FFF JUMPR -1
    16384,      \* 0x4000 JUMPR R0
    32768,      \* 0x8000 RTI
    53248,      \* 0xD000 RES
    61472,      \* 0xF020 TRAP GETC
    61473,      \* 0xF021 TRAP OUT
    61474,      \* 0xF022 TRAP PUTS
    61475,      \* 0xF023 TRAP IN
    61476,      \* 0xF024 TRAP PUTSP
    61477,      \* 0xF025 TRAP HALT
    61733,      \* 0xF125 TRAP HALT, bit 8 set
    61440,      \* 0xF000 TRAP 0x00
    61478,      \* 0xF026 TRAP 0x26
    61695       \* 0xF0FF TRAP 0xFF
}

\* The second word of the image: an instruction or a datum.
SecondWords == {
    0,
    1,          \* 0x0001
    12290,      \* 0x3002
    32767,      \* 0x7FFF
    65535,      \* 0xFFFF
    26952,      \* 0x6948 "Hi" packed
    49600,      \* 0xC1C0 JUMP R7
    4551,       \* 0x11C7 ADD R0, R7, R7
    37375,      \* 0x91FF NOT R0, R7
    15871,      \* 0x3DFF STORE R6, #-1
    16832,      \* 0x41C0 JUMPR R7
    61477,      \* 0xF025 TRAP HALT
    61478,      \* 0xF026 TRAP 0x26
    53248,      \* 0xD000 RES
    15872,      \* 0x3E00 STORE R7, #0
    32705,      \* 0x7FC1 STORER R7, R7, #1
    25087       \* 0x61FF LOADR R0, R7, #-1
}

\* The third word of the image.
ThirdWords == {0, 105, 32768, 61477}

Inputs == {<<>>, <<65, 200>>}

\* The array after the image <<w0, w1, w2>> is placed at origin.
Image(origin, w0, w1, w2) ==
    MemWrite(MemWrite(MemWrite(<<>>, origin, w0), origin + 1, w1), origin + 2, w2)

\* The image fits the array.
Fits(origin, w1, w2) ==
    /\ InBounds(origin)
    /\ w1 # 0 => InBounds(origin + 1)
    /\ w2 # 0 => InBounds(origin + 2)

\* main's locals as it enters the loop, the image in place and PC at origin.
Init ==
    /\ \E origin \in Origins, w0 \in FirstWords, w1 \in SecondWords, w2 \in ThirdWords :
         /\ Fits(origin, w1, w2)
         /\ memory = Image(origin, w0, w1, w2)
         /\ registers = [r \in 0..(COUNT - 1) |-> IF r = PC THEN origin ELSE 0]
    /\ running = TRUE
    /\ pc = "while"
    /\ panic = "none"
    /\ stdin \in Inputs
    /\ stdout = <<>>
    /\ overflow_checks \in BOOLEAN
    /\ steps = 0
    /\ ir = 0
    /\ iaddr = 0
    /\ prev = registers
    /\ prev_memory = memory
    /\ handler = "none"
    /\ last_store = NoStore
    /\ load_addr = NoAddr
    /\ call = NoCall

\* ----------------------------------------------------------- fetch, decode

\* The loop's condition holds and the model may run another cycle.
Cycle == pc = "while" /\ running /\ steps < MaxSteps

\* let instr = memory[registers[PC] as usize] is inside the array.
Fetched == InBounds(registers[PC])

instr == MemRead(memory, registers[PC])

op == Shr(instr, 12)

\* The fields of the fetched word.
\* The r0 field taken with a four-bit mask.
F_r0_four_bits == BitAnd(Shr(instr, 9), 15)

F_r0 == BitAnd(Shr(instr, 9), 7)
F_r1 == BitAnd(Shr(instr, 6), 7)
F_r2 == BitAnd(instr, 7)
F_imm_flag == BitAnd(Shr(instr, 5), 1)
F_imm5 == sign_extend(BitAnd(instr, 31), 5)
F_offset6 == sign_extend(BitAnd(instr, 63), 6)
F_pc_offset9 == sign_extend(BitAnd(instr, 511), 9)
F_pc_offset11 == sign_extend(BitAnd(instr, 2047), 11)
F_trap == BitAnd(instr, 255)

\* impl From<u16> for Trap: the vectors that do not reach its panic arm.
TrapDefined(trap) ==
    trap \in {TRAP_GETC, TRAP_OUT, TRAP_PUTS, TRAP_IN, TRAP_PUTSP, TRAP_HALT}

\* What every cycle records of itself.
Log(h) ==
    /\ steps' = steps + 1
    /\ ir' = instr
    /\ iaddr' = registers[PC]
    /\ prev' = registers
    /\ prev_memory' = memory
    /\ handler' = h
    /\ UNCHANGED <<overflow_checks, call>>

\* The cycle ends in a panic with nothing written.
Panic(msg) ==
    /\ pc' = "panic"
    /\ panic' = msg
    /\ UNCHANGED <<memory, registers, running, stdin, stdout>>
    /\ NoAccess

\* The cycle ends with the register file regs and the loop goes on.
SetRegisters(regs) ==
    /\ registers' = regs
    /\ UNCHANGED <<memory, running, pc, panic, stdin, stdout>>
    /\ NoAccess

\* Store followed by update_flag on the stored register.
Store_with_flags(index, value) ==
    IF InBounds(index)
    THEN /\ memory' = MemWrite(memory, index, value)
         /\ last_store' = [op |-> op, addr |-> index, value |-> value]
         /\ load_addr' = NoAddr
         /\ registers' = update_flag(registers, F_r0)
         /\ UNCHANGED <<running, pc, panic, stdin, stdout>>
    ELSE Panic("index out of bounds")

\* The cycle ends with value stored at index, or in a panic when index is
\* outside the array.
Store(index, value) ==
    IF InBounds(index)
    THEN /\ memory' = MemWrite(memory, index, value)
         /\ last_store' = [op |-> op, addr |-> index, value |-> value]
         /\ load_addr' = NoAddr
         /\ UNCHANGED <<registers, running, pc, panic, stdin, stdout>>
    ELSE Panic("index out of bounds")

\* dr = a + b, then update_flag(dr); the add panics in a checked build.
AddInto(dr, a, b) ==
    IF overflow_checks /\ AddOverflows(a, b)
    THEN Panic("attempt to add with overflow")
    ELSE SetRegisters(update_flag([registers EXCEPT ![dr] = WrappingAdd(a, b)], dr))

\* registers[PC] += offset.
AddToPC(regs, offset) ==
    IF overflow_checks /\ AddOverflows(regs[PC], offset)
    THEN Panic("attempt to add with overflow")
    ELSE SetRegisters([regs EXCEPT ![PC] = WrappingAdd(regs[PC], offset)])

\* LoadInto without its update_flag.
LoadInto_stale_flags(dr, index) ==
    IF InBounds(index)
    THEN /\ registers' = [registers EXCEPT ![dr] = MemRead(memory, index)]
         /\ load_addr' = index
         /\ UNCHANGED <<memory, running, pc, panic, stdin, stdout, last_store>>
    ELSE Panic("index out of bounds")

\* dr = memory[index], then update_flag(dr).
LoadInto(dr, index) ==
    IF InBounds(index)
    THEN /\ registers' = update_flag([registers EXCEPT ![dr] = MemRead(memory, index)], dr)
         /\ load_addr' = index
         /\ UNCHANGED <<memory, running, pc, panic, stdin, stdout, last_store>>
    ELSE Panic("index out of bounds")

\* -------------------------------------------------------------- the handlers

FetchFault ==
    /\ Cycle /\ ~Fetched
    /\ steps' = steps + 1
    /\ ir' = NoInstr
    /\ iaddr' = registers[PC]
    /\ prev' = registers
    /\ prev_memory' = memory
    /\ handler' = "FetchFault"
    /\ UNCHANGED <<overflow_checks, call>>
    /\ Panic("index out of bounds")

ADD ==
    /\ Cycle /\ Fetched /\ op = OP_ADD
    /\ Log("ADD")
    /\ IF F_imm_flag = 1
       THEN AddInto(F_r0, registers[F_r1], F_imm5)
       ELSE AddInto(F_r0, registers[F_r1], registers[F_r2])

AND ==
    /\ Cycle /\ Fetched /\ op = OP_AND
    /\ Log("AND")
    /\ LET operand == IF F_imm_flag = 1 THEN F_imm5 ELSE registers[F_r2]
       IN SetRegisters(update_flag(
              [registers EXCEPT ![F_r0] = BitAnd(registers[F_r1], operand)], F_r0))

NOT ==
    /\ Cycle /\ Fetched /\ op = OP_NOT
    /\ Log("NOT")
    /\ SetRegisters(update_flag(
           [registers EXCEPT ![F_r0] = BitNot(registers[F_r1])], F_r0))

\* BRANCH with cond = 0b111 taken whatever COND holds.
BRANCH_nzp_always ==
    /\ Cycle /\ Fetched /\ op = OP_BRANCH
    /\ Log("BRANCH")
    /\ IF BitAnd(Shr(instr, 9), 7) = 7
          \/ BitAnd(BitAnd(Shr(instr, 9), registers[COND]), 7) # 0
       THEN AddToPC(registers, F_pc_offset9)
       ELSE SetRegisters(registers)

BRANCH ==
    /\ Cycle /\ Fetched /\ op = OP_BRANCH
    /\ Log("BRANCH")
    /\ IF BitAnd(BitAnd(Shr(instr, 9), registers[COND]), 7) # 0
       THEN AddToPC(registers, F_pc_offset9)
       ELSE SetRegisters(registers)

JUMP ==
    /\ Cycle /\ Fetched /\ op = OP_JUMP
    /\ Log("JUMP")
    /\ SetRegisters([registers EXCEPT ![PC] = registers[F_r1]])

\* R7 is written before the add, so a panic of the add leaves it written.
JUMPR ==
    /\ Cycle /\ Fetched /\ op = OP_JUMPR
    /\ Log("JUMPR")
    /\ LET linked == [registers EXCEPT ![R7] = registers[PC]]
       IN IF BitAnd(Shr(instr, 11), 1) # 0
          THEN IF overflow_checks /\ AddOverflows(linked[PC], F_pc_offset11)
               THEN /\ pc' = "panic"
                    /\ panic' = "attempt to add with overflow"
                    /\ registers' = linked
                    /\ UNCHANGED <<memory, running, stdin, stdout>>
                    /\ NoAccess
               ELSE AddToPC(linked, F_pc_offset11)
          ELSE SetRegisters([linked EXCEPT ![PC] = linked[F_r1]])

LOAD ==
    /\ Cycle /\ Fetched /\ op = OP_LOAD
    /\ Log("LOAD")
    /\ LoadInto(F_r0, registers[PC] + F_pc_offset9)

LOADI ==
    /\ Cycle /\ Fetched /\ op = OP_LOADI
    /\ Log("LOADI")
    /\ IF InBounds(registers[PC] + F_pc_offset9)
       THEN LoadInto(F_r0, MemRead(memory, registers[PC] + F_pc_offset9))
       ELSE Panic("index out of bounds")

LOADR ==
    /\ Cycle /\ Fetched /\ op = OP_LOADR
    /\ Log("LOADR")
    /\ LoadInto(F_r0, registers[F_r1] + F_offset6)

LEA ==
    /\ Cycle /\ Fetched /\ op = OP_LEA
    /\ Log("LEA")
    /\ AddInto(F_r0, registers[PC], F_pc_offset9)

STORE ==
    /\ Cycle /\ Fetched /\ op = OP_STORE
    /\ Log("STORE")
    /\ Store(registers[PC] + F_pc_offset9, registers[F_r0])

STOREI ==
    /\ Cycle /\ Fetched /\ op = OP_STOREI
    /\ Log("STOREI")
    /\ IF InBounds(registers[PC] + F_pc_offset9)
       THEN Store(MemRead(memory, registers[PC] + F_pc_offset9), registers[F_r0])
       ELSE Panic("index out of bounds")

STORER ==
    /\ Cycle /\ Fetched /\ op = OP_STORER
    /\ Log("STORER")
    /\ Store(registers[F_r1] + F_offset6, registers[F_r0])

\* RTI and RES as silent no-ops.
IllegalOpcode_ignored ==
    /\ Cycle /\ Fetched /\ op \in {OP_RTI, OP_RES}
    /\ Log("IllegalOpcode")
    /\ SetRegisters(registers)

IllegalOpcode ==
    /\ Cycle /\ Fetched /\ op \in {OP_RTI, OP_RES}
    /\ Log("IllegalOpcode")
    /\ Panic("Illegal Opcode")

\* ------------------------------------------------------------------ the traps

\* The while loop of PUTS from index i: the bytes it prints, and whether it
\* ends at a zero word (ok) or runs off the array.
RECURSIVE PutsScan(_, _)
PutsScan(m, i) ==
    IF ~InBounds(i) THEN [out |-> <<>>, ok |-> FALSE]
    ELSE IF MemRead(m, i) = 0 THEN [out |-> <<>>, ok |-> TRUE]
    ELSE LET rest == PutsScan(m, i + 1)
         IN [out |-> Utf8(MemRead(m, i) % 256) \o rest.out, ok |-> rest.ok]

\* The while loop of PUTSP from index i.
RECURSIVE PutspScan(_, _)
PutspScan(m, i) ==
    IF ~InBounds(i) THEN [out |-> <<>>, ok |-> FALSE]
    ELSE IF MemRead(m, i) = 0 THEN [out |-> <<>>, ok |-> TRUE]
    ELSE LET rest == PutspScan(m, i + 1)
             lo == BitAnd(MemRead(m, i), 255)
             ch == Shr(MemRead(m, i), 8) % 256
         IN [out |-> Utf8(lo) \o (IF ch # 0 THEN Utf8(ch) ELSE <<>>) \o rest.out,
             ok |-> rest.ok]

\* The cycle ends having printed scan.out, in a panic if the scan ran off
\* the array.
Printed(scan) ==
    /\ stdout' = stdout \o scan.out
    /\ IF scan.ok
       THEN UNCHANGED <<pc, panic>>
       ELSE pc' = "panic" /\ panic' = "index out of bounds"
    /\ UNCHANGED <<memory, registers, running, stdin>>
    /\ NoAccess

\* ReadByte with the byte widened as a signed value (as i8 as u16).
ReadByte_sign_extended ==
    /\ NoAccess
    /\ IF stdin = <<>>
       THEN /\ pc' = "panic"
            /\ panic' = "unwrap on None"
            /\ UNCHANGED <<memory, registers, running, stdin>>
       ELSE /\ registers' = [registers EXCEPT ![R0] = sign_extend(Head(stdin), 8)]
            /\ stdin' = Tail(stdin)
            /\ UNCHANGED <<memory, running, pc, panic>>

\* registers[R0] = stdin().bytes().next().unwrap().unwrap() as u16
ReadByte ==
    /\ NoAccess
    /\ IF stdin = <<>>
       THEN /\ pc' = "panic"
            /\ panic' = "unwrap on None"
            /\ UNCHANGED <<memory, registers, running, stdin>>
       ELSE /\ registers' = [registers EXCEPT ![R0] = Head(stdin)]
            /\ stdin' = Tail(stdin)
            /\ UNCHANGED <<memory, running, pc, panic>>

TrapGETC ==
    /\ Cycle /\ Fetched /\ op = OP_TRAP /\ F_trap = TRAP_GETC
    /\ Log("TrapGETC")
    /\ ReadByte
    /\ UNCHANGED stdout

TrapOUT ==
    /\ Cycle /\ Fetched /\ op = OP_TRAP /\ F_trap = TRAP_OUT
    /\ Log("TrapOUT")
    /\ stdout' = stdout \o Utf8(registers[R0] % 256)
    /\ NoAccess
    /\ UNCHANGED <<memory, registers, running, pc, panic, stdin>>

TrapPUTS ==
    /\ Cycle /\ Fetched /\ op = OP_TRAP /\ F_trap = TRAP_PUTS
    /\ Log("TrapPUTS")
    /\ Printed(PutsScan(memory, registers[R0]))

TrapIN ==
    /\ Cycle /\ Fetched /\ op = OP_TRAP /\ F_trap = TRAP_IN
    /\ Log("TrapIN")
    /\ stdout' = stdout \o InPrompt
    /\ ReadByte

TrapPUTSP ==
    /\ Cycle /\ Fetched /\ op = OP_TRAP /\ F_trap = TRAP_PUTSP
    /\ Log("TrapPUTSP")
    /\ Printed(PutspScan(memory, registers[R0]))

\* Trap::HALT without running = false.
TrapHALT_keeps_running ==
    /\ Cycle /\ Fetched /\ op = OP_TRAP /\ F_trap = TRAP_HALT
    /\ Log("TrapHALT")
    /\ stdout' = stdout \o HaltNotice
    /\ NoAccess
    /\ UNCHANGED <<memory, registers, running, pc, panic, stdin>>

TrapHALT ==
    /\ Cycle /\ Fetched /\ op = OP_TRAP /\ F_trap = TRAP_HALT
    /\ Log("TrapHALT")
    /\ stdout' = stdout \o HaltNotice
    /\ running' = FALSE
    /\ NoAccess
    /\ UNCHANGED <<memory, registers, pc, panic, stdin>>

\* An undefined vector as a silent no-op.
TrapUndefined_ignored ==
    /\ Cycle /\ Fetched /\ op = OP_TRAP /\ ~TrapDefined(F_trap)
    /\ Log("TrapUndefined")
    /\ SetRegisters(registers)

TrapUndefined ==
    /\ Cycle /\ Fetched /\ op = OP_TRAP /\ ~TrapDefined(F_trap)
    /\ Log("TrapUndefined")
    /\ Panic("Invalid trap code")

\* The loop's condition fails: main prints its last line and returns.
Exit ==
    /\ pc = "while" /\ ~running
    /\ stdout' = stdout \o Farewell
    /\ pc' = "done"
    /\ UNCHANGED <<memory, registers, running, panic, stdin, overflow_checks,
                   steps, ir, iaddr, prev, prev_memory, handler,
                   last_store, load_addr, call>>

Next ==
    \/ FetchFault
    \/ ADD
    \/ AND
    \/ NOT
    \/ BRANCH
    \/ JUMP
    \/ JUMPR
    \/ LOAD
    \/ LOADI
    \/ LOADR
    \/ LEA
    \/ STORE
    \/ STOREI
    \/ STORER
    \/ TrapGETC
    \/ TrapOUT
    \/ TrapPUTS
    \/ TrapIN
    \/ TrapPUTSP
    \/ TrapHALT
    \/ TrapUndefined
    \/ IllegalOpcode
    \/ Exit

Spec == Init /\ [][Next]_vars

\* ----------------------------------------------- sign_extend, called directly

\* The words sign_extend is called with: the pairings of these high and low
\* bytes that fit bit_count bits.
SEHighBytes == {0, 1, 127, 128, 255}
SELowBytes == {0, 1, 15, 16, 31, 32, 63, 64, 127, 128, 255}

\* Every caller passes a field masked to its bit_count low bits.
SignExtendCalls ==
    {c \in [fn : {"sign_extend"},
            x : {h * 256 + l : h \in SEHighBytes, l \in SELowBytes},
            bit_count : 1..16,
            state : {"pending"},
            value : {0}] : c.x < 2 ^ c.bit_count}

\* main is not run; a caller is about to call sign_extend(x, bit_count).
InitSignExtend ==
    /\ memory = <<>>
    /\ registers = [r \in 0..(COUNT - 1) |-> 0]
    /\ running = TRUE
    /\ pc = "idle"
    /\ panic = "none"
    /\ stdin = <<>>
    /\ stdout = <<>>
    /\ overflow_checks \in BOOLEAN
    /\ steps = 0
    /\ ir = 0
    /\ iaddr = 0
    /\ prev = registers
    /\ prev_memory = memory
    /\ handler = "none"
    /\ last_store = NoStore
    /\ load_addr = NoAddr
    /\ call \in SignExtendCalls

\* The call returns, or panics in its shift in a build that checks overflow.
CallSignExtend ==
    /\ call.fn = "sign_extend" /\ call.state = "pending"
    /\ IF overflow_checks /\ SignBitSet(call.x, call.bit_count)
                          /\ ShiftOverflows(call.bit_count)
       THEN call' = [call EXCEPT !.state = "panic"]
       ELSE call' = [call EXCEPT !.state = "returned",
                                 !.value = sign_extend(call.x, call.bit_count)]
    /\ UNCHANGED <<memory, registers, running, pc, panic, stdin, stdout,
                   overflow_checks, steps, ir, iaddr, prev, prev_memory, handler,
                   last_store, load_addr>>

SpecSignExtend == InitSignExtend /\ [][CallSignExtend]_vars

\* ------------------------------------------------- the vocabulary of the claims

\* The opcode of the last cycle's instruction; -1 before the first cycle and
\* after a cycle whose fetch failed.
LastOp == IF steps > 0 /\ ir # NoInstr THEN ir \div 4096 ELSE 0 - 1

\* The last cycle's handler ran to its end.
Completed == pc # "panic"

\* Fields of the instruction word w, by position.
DR(w) == (w \div 512) % 8
SR1(w) == (w \div 64) % 8
SR2(w) == w % 8

\* Bit i of v.
Bit(v, i) == (v \div (2 ^ i)) % 2

\* The two's-complement value, modulo 65536, of the n-bit field v.
SExt(v, n) == IF v >= 2 ^ (n - 1) THEN (v + 65536) - 2 ^ n ELSE v

\* ZERO for 0, NEGATIVE with bit 15 set, POSITIVE otherwise.
Classify(v) == IF v = 0 THEN 2 ELSE IF v >= 32768 THEN 4 ELSE 1

GeneralAndCond == (0..7) \cup {COND}

\* --------------------------------------------------------------------- claims

\* The opcodes whose handlers transfer no control.
C1_Sequential ==
    {OP_ADD, OP_AND, OP_NOT, OP_LOAD, OP_LOADI, OP_LOADR, OP_LEA,
     OP_STORE, OP_STOREI, OP_STORER}

\* C1: after an instruction that is not a taken control transfer (an
\* arithmetic, load or store instruction, an untaken BRANCH, a TRAP other
\* than HALT), PC is the address of that instruction plus 1 modulo 65536.
C1_PCAdvances ==
    (/\ Completed
     /\ \/ LastOp \in C1_Sequential
        \/ LastOp = OP_BRANCH /\ BitAnd(DR(ir), prev[COND]) = 0
        \/ LastOp = OP_TRAP /\ ir % 256 # TRAP_HALT)
    => registers[PC] = (iaddr + 1) % 65536

\* The effective address the claim gives the last instruction, 9-bit offset.
C2_EA9 == (iaddr + 1 + SExt(ir % 512, 9)) % 65536

\* C2: a PC-relative instruction at address A uses the effective address
\* (A + 1 + sign_extend(offset)) mod 65536: LOAD reads it, LOADI reads
\* through it, STORE writes it, STOREI writes through it, LEA yields it, a
\* taken BRANCH and JUMPR with the mode bit set go to it; LOAD R0,#1 at
\* 0x3000 reads memory[0x3002].
C2_EffectiveAddress ==
    Completed =>
      /\ LastOp = OP_LOAD => registers[DR(ir)] = MemRead(prev_memory, C2_EA9)
      /\ LastOp = OP_LOADI =>
           registers[DR(ir)] = MemRead(prev_memory, MemRead(prev_memory, C2_EA9))
      /\ LastOp = OP_STORE => MemRead(memory, C2_EA9) = prev[DR(ir)]
      /\ LastOp = OP_STOREI =>
           MemRead(memory, MemRead(prev_memory, C2_EA9)) = prev[DR(ir)]
      /\ LastOp = OP_LEA => registers[DR(ir)] = C2_EA9
      /\ (LastOp = OP_BRANCH /\ BitAnd(DR(ir), prev[COND]) # 0) => registers[PC] = C2_EA9
      /\ (LastOp = OP_JUMPR /\ Bit(ir, 11) = 1) =>
           registers[PC] = (iaddr + 1 + SExt(ir % 2048, 11)) % 65536
      /\ (LastOp = OP_LOAD /\ ir = 8193 /\ iaddr = 12288) =>
           registers[R0] = MemRead(prev_memory, 12290)

\* C3: a JUMPR at address A leaves A + 1 (modulo 65536) in R7, and a JUMP
\* whose baseR is R7 sets PC to what R7 held.
C3_LinkAndReturn ==
    /\ LastOp = OP_JUMPR => registers[R7] = (iaddr + 1) % 65536
    /\ (LastOp = OP_JUMP /\ SR1(ir) = R7 /\ Completed) => registers[PC] = prev[R7]

\* C4: no memory access of the loop (a fetch, a load, a store, an indirect
\* target, a word of a PUTS or PUTSP scan) is outside the memory array.
C4_AccessesInRange == pc = "panic" => panic # "index out of bounds"

\* The second operand of the last ADD or AND.
C5_Operand == IF Bit(ir, 5) = 1 THEN SExt(ir % 32, 5) ELSE prev[SR2(ir)]

\* C5: ADD and AND write to dr the result modulo 65536 (ADD: sr1 + operand,
\* AND: sr1 & operand; the immediate operand is sign_extend(imm5, 5)) and set
\* COND to the classification of that result.
C5_ArithmeticWraps ==
    /\ LastOp = OP_ADD =>
         /\ Completed
         /\ registers[DR(ir)] = (prev[SR1(ir)] + C5_Operand) % 65536
         /\ registers[COND] = Classify(registers[DR(ir)])
    /\ LastOp = OP_AND =>
         /\ Completed
         /\ registers[DR(ir)] = BitAnd(prev[SR1(ir)], C5_Operand)
         /\ registers[COND] = Classify(registers[DR(ir)])

\* C6: sign_extend(x, bit_count), for a 16-bit x and bit_count in 1..16,
\* returns a 16-bit value whose bits below bit_count are those of x and whose
\* bits from bit_count up all equal bit (bit_count - 1) of x.
C6_SignExtend ==
    (call.fn = "sign_extend" /\ call.state # "pending") =>
      /\ call.state = "returned"
      /\ call.value \in 0..65535
      /\ \A i \in 0..15 :
           Bit(call.value, i) =
             IF i < call.bit_count THEN Bit(call.x, i)
             ELSE Bit(call.x, call.bit_count - 1)

\* The opcodes whose handlers end in update_flag.
C7_FlagOps == {OP_ADD, OP_AND, OP_NOT, OP_LOAD, OP_LOADI, OP_LOADR, OP_LEA}

\* C7: after a flag-updating instruction (ADD, AND, NOT, LOAD, LOADI, LOADR,
\* LEA) COND is exactly one of the three flag bits, the classification of the
\* value written to dr: ZERO iff it is 0, NEGATIVE iff it is not 0 and has
\* bit 15 set, POSITIVE otherwise.
C7_FlagsClassify ==
    (LastOp \in C7_FlagOps /\ Completed) =>
      /\ registers[COND] \in {1, 2, 4}
      /\ registers[COND] = 2 <=> registers[DR(ir)] = 0
      /\ registers[COND] = 4 <=> (registers[DR(ir)] # 0 /\ Bit(registers[DR(ir)], 15) = 1)
      /\ registers[COND] = 1 <=> (registers[DR(ir)] # 0 /\ Bit(registers[DR(ir)], 15) = 0)

\* A LOAD has written 0x8000 to R0 and COND is NEGATIVE.
C7_Witness ==
    /\ LastOp = OP_LOAD /\ Completed
    /\ registers[R0] = 32768
    /\ registers[COND] = NEGATIVE

\* C8: TRAP 0x25 takes the loop from running to halted, and halted is
\* terminal: from then on no cycle begins and registers and memory do not
\* change.
C8_HaltTerminal ==
    /\ []((LastOp = OP_TRAP /\ ir % 256 = TRAP_HALT) => (~running /\ Completed))
    /\ [][~running => /\ ~running'
                      /\ registers' = registers
                      /\ memory' = memory
                      /\ steps' = steps
                      /\ ir' = ir]_vars

\* main has returned after a HALT, PC pointing at a non-zero word.
C8_Witness ==
    /\ pc = "done" /\ ~running
    /\ LastOp = OP_TRAP /\ ir % 256 = TRAP_HALT
    /\ MemRead(memory, registers[PC]) # 0

\* C9: a fetched word with opcode 8 (RTI) or 13 (RES) ends the run in that
\* cycle with the Illegal Opcode panic, and leaves every general-purpose
\* register, COND and memory as they were.
C9_IllegalOpcode ==
    LastOp \in {OP_RTI, OP_RES} =>
      /\ pc = "panic"
      /\ panic = "Illegal Opcode"
      /\ \A r \in GeneralAndCond : registers[r] = prev[r]
      /\ memory = prev_memory

\* A RES reached through a JUMPR has ended the run.
C9_Witness ==
    /\ LastOp = OP_RES
    /\ panic = "Illegal Opcode"
    /\ steps = 2
    /\ registers[R7] # registers[PC]

\* The handler of each defined trap vector.
C10_OwnHandler(v) ==
    CASE v = TRAP_GETC -> "TrapGETC"
      [] v = TRAP_OUT -> "TrapOUT"
      [] v = TRAP_PUTS -> "TrapPUTS"
      [] v = TRAP_IN -> "TrapIN"
      [] v = TRAP_PUTSP -> "TrapPUTSP"
      [] v = TRAP_HALT -> "TrapHALT"

\* C10: a TRAP whose low 8 bits are outside 0x20..0x25 ends the run with the
\* Invalid trap code panic, having changed no general-purpose register, no
\* COND and no memory word; a TRAP whose low 8 bits are inside 0x20..0x25 is
\* dispatched to the handler of that vector and never ends in that panic.
C10_UndefinedTrap ==
    LastOp = OP_TRAP =>
      IF ir % 256 \in 32..37
      THEN /\ handler = C10_OwnHandler(ir % 256)
           /\ panic # "Invalid trap code"
      ELSE /\ pc = "panic"
           /\ panic = "Invalid trap code"
           /\ handler = "TrapUndefined"
           /\ \A r \in GeneralAndCond : registers[r] = prev[r]
           /\ memory = prev_memory

\* TRAP 0x26, reached through a JUMPR, has ended the run.
C10_Witness ==
    /\ LastOp = OP_TRAP /\ ir % 256 = 38
    /\ panic = "Invalid trap code"
    /\ steps = 2

\* The step is a cycle whose instruction has opcode o.
Stepped(o) == steps' = steps + 1 /\ ir' # NoInstr /\ ir' \div 4096 = o

\* The step is a cycle whose instruction is a TRAP with vector v.
Trapped(v) == Stepped(OP_TRAP) /\ ir' % 256 = v

\* The low 8 bits of the words of m from index i up to the first zero word.
RECURSIVE C11_Text(_, _)
C11_Text(m, i) ==
    IF MemRead(m, i) = 0 THEN <<>>
    ELSE <<MemRead(m, i) % 256>> \o C11_Text(m, i + 1)

\* C11: PUTS writes to the output, in increasing address order from address
\* R0, the low 8 bits of each memory word before the first zero word and
\* nothing more, and changes no register and no memory word.
C11_Puts ==
    [][Trapped(TRAP_PUTS) =>
         /\ stdout' = stdout \o C11_Text(memory, registers[R0])
         /\ registers' = registers
         /\ memory' = memory]_vars

\* C12: the loop stops running only through TRAP HALT or through one of the
\* three fatal errors (illegal opcode, undefined trap, input exhausted); no
\* arithmetic overflow, address computation, fetch or data access ends it.
C12_ExitsOnlyBy ==
    /\ ~running => (LastOp = OP_TRAP /\ ir % 256 = TRAP_HALT)
    /\ pc = "panic" =>
         panic \in {"Illegal Opcode", "Invalid trap code", "unwrap on None"}

C14_Branch ==
    LastOp = OP_BRANCH =>
      /\ Completed
      /\ registers[PC] =
           IF BitAnd(DR(ir), prev[COND]) # 0
           THEN (iaddr + 1 + SExt(ir % 512, 9)) % 65536
           ELSE (iaddr + 1) % 65536
      /\ \A r \in GeneralAndCond : registers[r] = prev[r]
      /\ memory = prev_memory

\* The address C15 gives the last instruction: PC-relative, register-relative.
C15_PCRelative == (iaddr + 1 + SExt(ir % 512, 9)) % 65536
C15_BaseRelative == (prev[SR1(ir)] + SExt(ir % 64, 6)) % 65536

\* C15: the loads and stores access the word at (base + sign_extend(offset))
\* modulo 65536, base being the advanced PC (LOAD, LOADI, STORE, STOREI) or
\* registers[baseR] (LOADR, STORER): a negative offset reaches the words
\* below base and a sum above 0xFFFF reaches the low addresses.
C15_WrappingAddresses ==
    /\ LastOp = OP_LOADR =>
         (Completed /\ registers[DR(ir)] = MemRead(prev_memory, C15_BaseRelative))
    /\ LastOp = OP_STORER =>
         (Completed /\ MemRead(memory, C15_BaseRelative) = prev[DR(ir)])
    /\ LastOp = OP_LOAD =>
         (Completed /\ registers[DR(ir)] = MemRead(prev_memory, C15_PCRelative))
    /\ LastOp = OP_STORE =>
         (Completed /\ MemRead(memory, C15_PCRelative) = prev[DR(ir)])
    /\ LastOp = OP_LOADI =>
         (Completed /\ registers[DR(ir)] =
                         MemRead(prev_memory, MemRead(prev_memory, C15_PCRelative)))
    /\ LastOp = OP_STOREI =>
         (Completed /\ MemRead(memory, MemRead(prev_memory, C15_PCRelative)) = prev[DR(ir)])

\* The memory words the last cycle changed.
Changed ==
    {a \in (DOMAIN memory) \cup (DOMAIN prev_memory) :
       MemRead(memory, a) # MemRead(prev_memory, a)}

C16_Stores == {OP_STORE, OP_STOREI, OP_STORER}

\* COND changes only in the flag update of ADD, AND, NOT, LOAD, LOADI, LOADR
\* and LEA, and the stores leave R0..R7 as they were.
C16_CondAndRegisters ==
    /\ registers[COND] # prev[COND] => (LastOp \in C7_FlagOps /\ Completed)
    /\ LastOp \in C16_Stores \cup {OP_BRANCH, OP_JUMP, OP_JUMPR, OP_TRAP} =>
         registers[COND] = prev[COND]
    /\ LastOp \in C16_Stores => \A r \in 0..7 : registers[r] = prev[r]

RECURSIVE C17_Text(_, _)
C17_Text(m, i) ==
    IF MemRead(m, i) = 0 THEN <<>>
    ELSE <<MemRead(m, i) % 256>>
         \o (IF MemRead(m, i) \div 256 # 0 THEN <<MemRead(m, i) \div 256>> ELSE <<>>)
         \o C17_Text(m, i + 1)

\* C17: PUTSP writes to the output, from address R0 on, the low 8 bits of
\* each non-zero word and then its high 8 bits when those are not zero,
\* stops at the first zero word, and changes no register and no memory word.
C17_Putsp ==
    [][Trapped(TRAP_PUTSP) =>
         /\ stdout' = stdout \o C17_Text(memory, registers[R0])
         /\ registers' = registers
         /\ memory' = memory]_vars

\* C18: a load that follows a store of the matching addressing mode (LOAD
\* after STORE, LOADI after STOREI, LOADR after STORER), reads the index the
\* store wrote and has no write between them, leaves in dr the value the
\* store's sr held, and COND is the classification of that value.
C18_RoundTrip ==
    (/\ LastOp \in {OP_LOAD, OP_LOADI, OP_LOADR}
     /\ Completed
     /\ last_store.op = LastOp + 1
     /\ load_addr = last_store.addr)
    => /\ registers[DR(ir)] = last_store.value
       /\ registers[COND] = Classify(last_store.value)

\* A STORE of R7 = 0x2000 over its own word has been followed by the LOAD
\* that word now is, reading the same index.
C18_Witness ==
    /\ LastOp = OP_LOAD /\ Completed
    /\ last_store.op = OP_STORE
    /\ load_addr = last_store.addr
    /\ last_store.value = 8192
    /\ registers[R0] = 8192

\* The step is a cycle of a flag-updating instruction that ran to its end.
FlagStep == (\E o \in C7_FlagOps : Stepped(o)) /\ pc' # "panic"

\* C19: the register fields of an instruction are in 0..7, so PC changes only
\* by the fetch increment and in BRANCH, JUMP and JUMPR, COND changes only in
\* the flag update, which classifies one of R0..R7, and a flag-updating
\* instruction writes no register but its dr in R0..R7 and COND.
C19_RegisterFields ==
    /\ [](F_r0 \in 0..7 /\ F_r1 \in 0..7 /\ F_r2 \in 0..7)
    /\ [][/\ registers'[PC] # registers[PC] =>
               \/ Stepped(OP_BRANCH) \/ Stepped(OP_JUMP) \/ Stepped(OP_JUMPR)
               \/ registers'[PC] = (registers[PC] + 1) % 65536
          /\ registers'[COND] # registers[COND] => FlagStep
          /\ FlagStep =>
               /\ DR(ir') \in 0..7
               /\ registers'[COND] = Classify(registers'[DR(ir')])
               /\ \A r \in 0..(COUNT - 1) :
                    r \notin {DR(ir'), COND} => registers'[r] = registers[r]]_vars

\* An ADD has written its dr and COND and left PC alone.
C19_Witness ==
    /\ LastOp = OP_ADD /\ Completed
    /\ registers[DR(ir)] = 65535
    /\ registers[COND] = NEGATIVE
    /\ registers[PC] = prev[PC]

\* C20: COND is always 0, 1, 2 or 4; it is 0 from the start until the first
\* flag-updating instruction has run, and not after; while it is 0 no BRANCH
\* is taken.
C20_CondLifecycle ==
    /\ [](registers[COND] \in {0, 1, 2, 4})
    /\ [](steps = 0 => registers[COND] = 0)
    /\ [][/\ (registers[COND] = 0 /\ registers'[COND] # 0) => FlagStep
          /\ FlagStep => registers'[COND] # 0
          /\ registers[COND] # 0 => registers'[COND] # 0
          /\ (Stepped(OP_BRANCH) /\ registers[COND] = 0) =>
               registers'[PC] = registers[PC]]_vars

\* A BRANCH with cond = 0b111 and a non-zero offset has run with COND = 0
\* and was not taken.
C20_Witness ==
    /\ LastOp = OP_BRANCH /\ Completed
    /\ DR(ir) = 7
    /\ ir % 512 # 0
    /\ registers[COND] = 0
    /\ registers[PC] = iaddr

=============================================================================
